---- MODULE Spec2Model ----
(***************************************************************************)
(* Configuration resolution and the HTTP / stdio gateway of annas-mcp.     *)
(*                                                                         *)
(* The process environment, the protocol sessions and the outcome of the   *)
(* last operation are the state.  LoadEnv, configureEnvFromRequest, the    *)
(* two middlewares and the tool handlers are translated from the Go        *)
(* sources; the MCP runtime (session dispatch) and the archive client are  *)
(* external and appear only as the calls the repository makes to them.     *)
(***************************************************************************)
EXTENDS Integers, Sequences, FiniteSets, TLC

VARIABLES
    osenv,      \* the process environment, os.Getenv / os.Setenv
    startenv,   \* the process environment as it was at process start
    sessions,   \* the protocol sessions, in the order they were established
    last,       \* what the last operation was given and what it answered
    httpd       \* the HTTP listener: what StartHTTPServer has done so far

vars == <<osenv, startenv, sessions, last, httpd>>

(***************************************************************************)
(* Bounds of the model.                                                    *)
(***************************************************************************)
MaxSessions == 2
MaxTokenLen == 12
MaxCodeLen == 12
MaxCalls == 3

(***************************************************************************)
(* Strings.  Configuration values are opaque and compared only with "",    *)
(* so they are TLA+ strings.  An Authorization header is split and sliced  *)
(* by the code, so it is a sequence of characters.                         *)
(***************************************************************************)
EnvNames == {"ANNAS_SECRET_KEY", "ANNAS_DOWNLOAD_PATH", "secretKey",
             "downloadPath", "SECRET_KEY", "SMITHERY_CLIENT_ID",
             "SMITHERY_API_KEY"}

QueryNames == {"secretKey", "ANNAS_SECRET_KEY", "downloadPath",
               "ANNAS_DOWNLOAD_PATH"}

\* url.Values.Get: the value of the key, "" when the key is absent.
QueryGet(query, key) == query[key]

EmptyQuery == [k \in QueryNames |-> ""]

\* LoadEnv(nil): no request is given.
NoRequest == [isNil |-> TRUE, query |-> EmptyQuery]

\* An *http.Request, as far as LoadEnv and configureEnvFromRequest read it.
Request(query) == [isNil |-> FALSE, query |-> query]

(***************************************************************************)
(* LoadEnv, src/unnamed/part_001 lines 22-81.                              *)
(***************************************************************************)
DefaultDownloadPath == "/tmp/downloads"

\* A mutant of LoadEnv: tiers 2 and 3 are consulted in the wrong order and
\* the SECRET_KEY tier is consulted for nothing.
LoadEnvTiersSwapped(req, env) ==
    LET qs == IF ~req.isNil
              THEN IF QueryGet(req.query, "secretKey") # ""
                   THEN QueryGet(req.query, "secretKey")
                   ELSE QueryGet(req.query, "ANNAS_SECRET_KEY")
              ELSE ""
        qp == IF ~req.isNil
              THEN IF QueryGet(req.query, "downloadPath") # ""
                   THEN QueryGet(req.query, "downloadPath")
                   ELSE QueryGet(req.query, "ANNAS_DOWNLOAD_PATH")
              ELSE ""
        s2 == IF qs = "" THEN env["secretKey"] ELSE qs
        p2 == IF qp = "" THEN env["downloadPath"] ELSE qp
        s3 == IF s2 = "" THEN env["ANNAS_SECRET_KEY"] ELSE s2
        p3 == IF p2 = "" THEN env["ANNAS_DOWNLOAD_PATH"] ELSE p2
    IN  IF s3 = ""
        THEN [err |-> TRUE]
        ELSE [err |-> FALSE, SecretKey |-> s3,
              DownloadPath |-> IF p3 = "" THEN DefaultDownloadPath ELSE p3]

\* A mutant of LoadEnv: the default download path is applied before the
\* secret key is validated and an empty download path is an error too.
LoadEnvPathRequired(req, env) ==
    LET qs == IF ~req.isNil
              THEN IF QueryGet(req.query, "secretKey") # ""
                   THEN QueryGet(req.query, "secretKey")
                   ELSE QueryGet(req.query, "ANNAS_SECRET_KEY")
              ELSE ""
        qp == IF ~req.isNil
              THEN IF QueryGet(req.query, "downloadPath") # ""
                   THEN QueryGet(req.query, "downloadPath")
                   ELSE QueryGet(req.query, "ANNAS_DOWNLOAD_PATH")
              ELSE ""
        s2 == IF qs = "" THEN env["ANNAS_SECRET_KEY"] ELSE qs
        p2 == IF qp = "" THEN env["ANNAS_DOWNLOAD_PATH"] ELSE qp
        s3 == IF s2 = "" THEN env["secretKey"] ELSE s2
        p3 == IF p2 = "" THEN env["downloadPath"] ELSE p2
        s4 == IF s3 = "" THEN env["SECRET_KEY"] ELSE s3
    IN  IF s4 = "" \/ p3 = ""
        THEN [err |-> TRUE]
        ELSE [err |-> FALSE, SecretKey |-> s4, DownloadPath |-> p3]

\* A mutant of LoadEnv: a missing secret key is not an error.
LoadEnvNoValidation(req, env) ==
    LET qs == IF ~req.isNil
              THEN IF QueryGet(req.query, "secretKey") # ""
                   THEN QueryGet(req.query, "secretKey")
                   ELSE QueryGet(req.query, "ANNAS_SECRET_KEY")
              ELSE ""
        qp == IF ~req.isNil
              THEN IF QueryGet(req.query, "downloadPath") # ""
                   THEN QueryGet(req.query, "downloadPath")
                   ELSE QueryGet(req.query, "ANNAS_DOWNLOAD_PATH")
              ELSE ""
        s2 == IF qs = "" THEN env["ANNAS_SECRET_KEY"] ELSE qs
        p2 == IF qp = "" THEN env["ANNAS_DOWNLOAD_PATH"] ELSE qp
        s3 == IF s2 = "" THEN env["secretKey"] ELSE s2
        p3 == IF p2 = "" THEN env["downloadPath"] ELSE p2
        s4 == IF s3 = "" THEN env["SECRET_KEY"] ELSE s3
    IN  [err |-> FALSE, SecretKey |-> s4,
         DownloadPath |-> IF p3 = "" THEN DefaultDownloadPath ELSE p3]

\* The result is [err |-> TRUE] (nil, err) or the resolved Env with err FALSE.
LoadEnv(req, env) ==
    LET \* 1. query parameters, if a request is given (lines 29-42)
        qs == IF ~req.isNil
              THEN IF QueryGet(req.query, "secretKey") # ""
                   THEN QueryGet(req.query, "secretKey")
                   ELSE QueryGet(req.query, "ANNAS_SECRET_KEY")
              ELSE ""
        qp == IF ~req.isNil
              THEN IF QueryGet(req.query, "downloadPath") # ""
                   THEN QueryGet(req.query, "downloadPath")
                   ELSE QueryGet(req.query, "ANNAS_DOWNLOAD_PATH")
              ELSE ""
        \* 2. standard environment variables (lines 45-50)
        s2 == IF qs = "" THEN env["ANNAS_SECRET_KEY"] ELSE qs
        p2 == IF qp = "" THEN env["ANNAS_DOWNLOAD_PATH"] ELSE qp
        \* 3. Smithery-style environment variables (lines 53-58)
        s3 == IF s2 = "" THEN env["secretKey"] ELSE s2
        p3 == IF p2 = "" THEN env["downloadPath"] ELSE p2
        \* 4. generic environment variable (lines 61-63)
        s4 == IF s3 = "" THEN env["SECRET_KEY"] ELSE s3
    IN  IF s4 = ""
        THEN [err |-> TRUE]
        ELSE [err |-> FALSE, SecretKey |-> s4,
              DownloadPath |-> IF p3 = "" THEN DefaultDownloadPath ELSE p3]

\* GetEnv, src/unnamed/part_001 lines 84-86.
GetEnv(env) == LoadEnv(NoRequest, env)

(***************************************************************************)
(* The tool handlers and the server factories.                             *)
(***************************************************************************)
NoEnv == [SecretKey |-> "", DownloadPath |-> ""]     \* &Env{}

EnvOf(res) == [SecretKey |-> res.SecretKey, DownloadPath |-> res.DownloadPath]

\* SearchToolHandler, src/internal/modes/cli.go lines 191-220: one call of
\* anna.FindBook, whose error (archOk = FALSE) is returned as it is.
SearchToolHandler(archOk) ==
    [err |-> IF archOk THEN "" ELSE "archive",
     used |-> <<>>,
     archive |-> <<[fn |-> "FindBook"]>>]

\* A mutant of NewDownloadToolHandler: the secret key is not examined before
\* the archive is asked for the download URL.
NewDownloadToolHandlerNoCheck(env, archOk) ==
    [err |-> IF archOk THEN "" ELSE "archive", used |-> <<env>>,
     archive |-> <<[fn |-> "GetDownloadURL", key |-> env.SecretKey]>>]

\* The handler NewDownloadToolHandler(env) returns, cli.go lines 223-269.
NewDownloadToolHandler(env, archOk) ==
    IF env.SecretKey = ""
    THEN [err |-> "secret key is not configured", used |-> <<env>>,
          archive |-> <<>>]
    ELSE [err |-> IF archOk THEN "" ELSE "archive", used |-> <<env>>,
          archive |-> <<[fn |-> "GetDownloadURL", key |-> env.SecretKey]>>]

\* DownloadToolHandler, cli.go lines 275-282: the environment is resolved
\* from the process environment at the time of the call.
DownloadToolHandler(env, archOk) ==
    LET res == GetEnv(env)
    IN  IF res.err
        THEN [err |-> "secretKey must be set", used |-> <<>>, archive |-> <<>>]
        ELSE NewDownloadToolHandler(EnvOf(res), archOk)

\* A mutant of createMCPServer: the download tool is the legacy handler,
\* which resolves the configuration at every call.
createMCPServerLegacy(env) ==
    [tools |-> <<"search", "download">>,
     download |-> "DownloadToolHandler", env |-> env]

\* A mutant of createMCPServer: the download tool is not registered.
createMCPServerSearchOnly(env) ==
    [tools |-> <<"search">>, download |-> "NewDownloadToolHandler",
     env |-> env]

\* createMCPServer(env), cli.go lines 286-306: the download tool is closed
\* over the environment it is given.
createMCPServer(env) ==
    [tools |-> <<"search", "download">>,
     download |-> "NewDownloadToolHandler", env |-> env]

\* createMCPServer(), src/unnamed/part_002 lines 52-72, the factory that
\* StartHTTPServer calls: the download tool is DownloadToolHandler.
createMCPServerHTTP ==
    [tools |-> <<"search", "download">>,
     download |-> "DownloadToolHandler", env |-> NoEnv]

\* A tools/call on a server instance, as the MCP runtime dispatches it.
CallTool(server, tool, env, archOk) ==
    IF tool = "search" THEN SearchToolHandler(archOk)
    ELSE IF server.download = "DownloadToolHandler"
         THEN DownloadToolHandler(env, archOk)
         ELSE NewDownloadToolHandler(server.env, archOk)

(***************************************************************************)
(* configureEnvFromRequest, src/unnamed/part_002 lines 25-49.              *)
(***************************************************************************)
Setenv(env, name, value) == [env EXCEPT ![name] = value]

configureEnvFromRequest(query, env) ==
    LET e1 == IF QueryGet(query, "secretKey") # ""
              THEN Setenv(env, "ANNAS_SECRET_KEY", QueryGet(query, "secretKey"))
              ELSE env
        e2 == IF QueryGet(query, "downloadPath") # ""
              THEN Setenv(e1, "ANNAS_DOWNLOAD_PATH",
                          QueryGet(query, "downloadPath"))
              ELSE e1
        e3 == IF QueryGet(query, "ANNAS_SECRET_KEY") # ""
              THEN Setenv(e2, "ANNAS_SECRET_KEY",
                          QueryGet(query, "ANNAS_SECRET_KEY"))
              ELSE e2
        e4 == IF QueryGet(query, "ANNAS_DOWNLOAD_PATH") # ""
              THEN Setenv(e3, "ANNAS_DOWNLOAD_PATH",
                          QueryGet(query, "ANNAS_DOWNLOAD_PATH"))
              ELSE e3
    IN  e4

(***************************************************************************)
(* Authorization headers and oauthMiddleware, part_002 lines 274-313.      *)
(***************************************************************************)
TokenPrefixLen == 10        \* token[:10], part_002 line 309

Bearer == <<"B", "e", "a", "r", "e", "r">>
TokenScheme == <<"T", "o", "k", "e", "n">>
Space == <<" ">>
Xyz == <<"x", "y", "z">>
Chars(k) == [i \in 1..k |-> "x"]

\* strings.SplitN(s, " ", 2): s itself when it holds no space, else the text
\* before the first space and the text after it.
SplitN2(s) ==
    IF \E i \in 1..Len(s) : s[i] = " "
    THEN LET i == CHOOSE j \in 1..Len(s) :
                    /\ s[j] = " "
                    /\ \A k \in 1..(j - 1) : s[k] # " "
         IN  <<SubSeq(s, 1, i - 1), SubSeq(s, i + 1, Len(s))>>
    ELSE <<s>>

\* A mutant of oauthMiddleware: the scheme of the header is not compared
\* with "Bearer".
oauthMiddlewareAnyScheme(authHeader, env) ==
    IF env["SMITHERY_CLIENT_ID"] = "" THEN "next"
    ELSE IF authHeader = <<>> THEN "401"
    ELSE LET parts == SplitN2(authHeader)
         IN  IF Len(parts) # 2 THEN "401"
             ELSE IF parts[2] = <<>> THEN "401"
             ELSE IF Len(parts[2]) < TokenPrefixLen THEN "panic"
             ELSE "next"

\* A mutant of oauthMiddleware: the header is examined whether or not
\* SMITHERY_CLIENT_ID is set.
oauthMiddlewareAlwaysOn(authHeader, env) ==
    IF authHeader = <<>> THEN "401"
    ELSE LET parts == SplitN2(authHeader)
         IN  IF Len(parts) # 2 \/ parts[1] # Bearer THEN "401"
             ELSE IF parts[2] = <<>> THEN "401"
             ELSE IF Len(parts[2]) < TokenPrefixLen THEN "panic"
             ELSE "next"

\* "next": the request is passed on; "401": http.Error(..., 401); "panic":
\* token[:10] is out of range, net/http recovers the panic and drops the
\* connection without an answer.
oauthMiddleware(authHeader, env) ==
    IF env["SMITHERY_CLIENT_ID"] = "" THEN "next"
    ELSE IF authHeader = <<>> THEN "401"
    ELSE LET parts == SplitN2(authHeader)
         IN  IF Len(parts) # 2 \/ parts[1] # Bearer THEN "401"
             ELSE IF parts[2] = <<>> THEN "401"
             ELSE IF Len(parts[2]) < TokenPrefixLen THEN "panic"
             ELSE "next"

(***************************************************************************)
(* The inputs: environments the process can be started in and the query    *)
(* strings a client can send.  "" is an unset variable or an absent key.   *)
(***************************************************************************)
EnvVals == {"", "E", "F"}
QueryVals == {"", "A", "B"}

ConfigNames == {"ANNAS_SECRET_KEY", "ANNAS_DOWNLOAD_PATH", "secretKey",
                "downloadPath", "SECRET_KEY"}

\* Every environment over the five configuration variables, no gate variable.
ConfigEnvs ==
    {[n \in EnvNames |-> IF n \in ConfigNames THEN c[n] ELSE ""] :
        c \in [ConfigNames -> EnvVals]}

Queries == [QueryNames -> QueryVals]

Idle == [op |-> "none"]

(***************************************************************************)
(* The HTTP listener, StartHTTPServer in src/unnamed/part_002 lines 75-254. *)
(* routes are the paths mounted on the mux, listening says that            *)
(* ListenAndServe was reached and the socket is bound.                     *)
(***************************************************************************)
Paths == {"/mcp", "/.well-known/mcp-config",
          "/.well-known/mcp-server-card.json",
          "/.well-known/mcp/server-card.json", "/oauth/callback", "/health"}

\* No StartHTTPServer has run: the process start of the http command, and
\* every state of the stdio server.
NotStarted ==
    [started |-> FALSE, transport |-> "", port |-> 0, routes |-> {},
     listening |-> FALSE, err |-> ""]

DefaultPort == 8080         \* defaultPort := 8080, cli.go line 136

\* StartHTTPServer has mounted every route and ListenAndServe is serving.
\* The port is the default one of the http command.
Serving(transport) ==
    [started |-> TRUE, transport |-> transport, port |-> DefaultPort,
     routes |-> Paths, listening |-> TRUE, err |-> ""]

\* What StartHTTPServer(config) makes of the listener: the switch of lines
\* 90-109 returns the error of line 108 before the mux exists; otherwise
\* every route is mounted (lines 112-235) and ListenAndServe binds
\* config.Port (lines 237-248) or fails.
Listen(port, transport, bindOk) ==
    IF transport \in {"sse", "streamable"}
    THEN [Serving(transport) EXCEPT !.port = port, !.listening = bindOk,
                                    !.err = IF bindOk THEN "" ELSE "listen"]
    ELSE [started |-> TRUE, transport |-> transport, port |-> 0,
          routes |-> {}, listening |-> FALSE,
          err |-> "invalid transport type"]

(***************************************************************************)
(* SpecLoadEnv: LoadEnv as a function of the request and the environment.  *)
(***************************************************************************)
InitLoadEnv ==
    /\ osenv \in ConfigEnvs
    /\ startenv = osenv
    /\ sessions = <<>>
    /\ last = Idle
    /\ httpd = NotStarted

CallLoadEnv(isNil, query) ==
    /\ LET req == IF isNil THEN NoRequest ELSE Request(query)
       IN  last' = [op |-> "LoadEnv", req |-> req,
                    res |-> LoadEnv(req, osenv)]
    /\ UNCHANGED <<osenv, startenv, sessions, httpd>>

NextLoadEnv ==
    \/ \E q \in Queries : CallLoadEnv(FALSE, q)
    \/ CallLoadEnv(TRUE, EmptyQuery)

SpecLoadEnv == InitLoadEnv /\ [][NextLoadEnv]_vars

(***************************************************************************)
(* The HTTP server, StartHTTPServer in src/unnamed/part_002: /mcp is       *)
(* corsMiddleware(oauthMiddleware(handler)), and handler is the MCP         *)
(* runtime's, which calls the factory (configureEnvFromRequest, then       *)
(* createMCPServer) for a request that establishes a session and hands a    *)
(* request of an existing session to that session's server.                *)
(***************************************************************************)
Methods == {"GET", "POST", "OPTIONS"}

\* A request to /mcp: sid = 0 asks for a new session, sid > 0 is a tools/call
\* of tool on session sid.
MCPRequest(method, auth, query, sid, tool) ==
    [isNil |-> FALSE, path |-> "/mcp", method |-> method, auth |-> auth,
     query |-> query, sid |-> sid, tool |-> tool]

\* A response body: its text, and the tool names a server card lists.
Doc(text, tools) == [text |-> text, tools |-> tools]
NoBody == Doc("", <<>>)

Response(status, acao, body) ==
    [status |-> status, acao |-> acao, body |-> body]

\* A handler that panicked: net/http drops the connection, nothing is sent.
Dropped == Response(0, "", NoBody)

\* A mutant of corsMiddleware: OPTIONS is passed on like any other method.
corsMiddlewareNoPreflight(method) == "next"

\* corsMiddleware, part_002 lines 257-271: "200" answers a preflight.
corsMiddleware(method) == IF method = "OPTIONS" THEN "200" ELSE "next"

\* The two middlewares in the order line 113 nests them.
Admission(r, env) ==
    IF corsMiddleware(r.method) = "200" THEN "200"
    ELSE oauthMiddleware(r.auth, env)

NoResult == [kind |-> "none"]

\* The answer of a request that does not reach the protocol handler.
NotForwarded(r, decision) ==
    [op |-> "mcp", req |-> r,
     status |-> IF decision = "200" THEN 200
                ELSE IF decision = "401" THEN 401 ELSE 0,
     acao |-> IF decision = "panic" THEN "" ELSE "*",
     body |-> IF decision = "401" THEN Doc("Unauthorized", <<>>) ELSE NoBody,
     forwarded |-> FALSE, result |-> NoResult]

Forwarded(r, result) ==
    [op |-> "mcp", req |-> r, status |-> 200, acao |-> "*",
     body |-> Doc("mcp", <<>>), forwarded |-> TRUE, result |-> result]

\* A request without a session: the factory of lines 93-96 / 101-104 runs
\* when the request is admitted.
EstablishSession(method, auth, query) ==
    /\ httpd.listening
    /\ LET r == MCPRequest(method, auth, query, 0, "")
           d == Admission(r, osenv)
       IN  IF d = "next"
           THEN /\ Len(sessions) < MaxSessions
                /\ osenv' = configureEnvFromRequest(r.query, osenv)
                /\ sessions' = Append(sessions,
                        [query |-> r.query, server |-> createMCPServerHTTP])
                /\ last' = Forwarded(r, [kind |-> "session",
                                         session |-> Len(sessions) + 1])
           ELSE /\ last' = NotForwarded(r, d)
                /\ UNCHANGED <<osenv, sessions>>
    /\ UNCHANGED <<startenv, httpd>>

\* A tools/call on an established session.
ToolCall(method, auth, sid, tool, archOk) ==
    /\ httpd.listening
    /\ sid \in 1..Len(sessions)
    /\ LET r == MCPRequest(method, auth, EmptyQuery, sid, tool)
           d == Admission(r, osenv)
       IN  last' = IF d = "next"
                   THEN Forwarded(r, [kind |-> "call"] @@
                            CallTool(sessions[r.sid].server, r.tool, osenv,
                                     archOk))
                   ELSE NotForwarded(r, d)
    /\ UNCHANGED <<osenv, startenv, sessions, httpd>>

NextHTTP(headers, queries, archive) ==
    \/ \E m \in Methods, a \in headers, q \in queries :
            EstablishSession(m, a, q)
    \/ \E m \in Methods, a \in headers, sid \in 1..MaxSessions,
          t \in {"search", "download"}, archOk \in archive :
            ToolCall(m, a, sid, t, archOk)

(***************************************************************************)
(* Spec: sessions and their configuration.  The gate is not configured,    *)
(* requests carry no Authorization header and any query string.            *)
(***************************************************************************)
HTTPEnvs ==
    {e \in ConfigEnvs :
        /\ e["ANNAS_SECRET_KEY"] \in {"", "E"}
        /\ e["ANNAS_DOWNLOAD_PATH"] \in {"", "E"}
        /\ e["secretKey"] = "" /\ e["downloadPath"] = ""
        /\ e["SECRET_KEY"] = ""}

SessionQueries ==
    {q \in Queries :
        /\ q["downloadPath"] \in {"", "A"}
        /\ q["ANNAS_SECRET_KEY"] \in {"", "B"}
        /\ q["ANNAS_DOWNLOAD_PATH"] \in {"", "B"}}

Init ==
    /\ osenv \in HTTPEnvs
    /\ startenv = osenv
    /\ sessions = <<>>
    /\ last = Idle
    /\ httpd = Serving("streamable")

Next == NextHTTP({<<>>}, SessionQueries, BOOLEAN)

Spec == Init /\ [][Next]_vars

(***************************************************************************)
(* SpecGate: the admission of requests to /mcp.  Every gate variable may   *)
(* be set, requests carry any of the Authorization headers below, and the  *)
(* archive answers every call.                                             *)
(***************************************************************************)
AuthHeaders ==
    {<<>>, Bearer, Bearer \o Space, Bearer \o Space \o Xyz,
     TokenScheme \o Space \o Xyz,
     TokenScheme \o Space \o Chars(MaxTokenLen)}
    \cup {Bearer \o Space \o Chars(k) :
            k \in {TokenPrefixLen - 1, TokenPrefixLen, MaxTokenLen}}

GateEnvs ==
    {[e EXCEPT !["SMITHERY_CLIENT_ID"] = c, !["SMITHERY_API_KEY"] = k] :
        e \in {h \in HTTPEnvs : h["ANNAS_DOWNLOAD_PATH"] = ""},
        c \in {"", "client-id"}, k \in {"", "api-key"}}

GateQueries ==
    {EmptyQuery,
     [EmptyQuery EXCEPT !["secretKey"] = "A", !["downloadPath"] = "A"]}

InitGate ==
    /\ osenv \in GateEnvs
    /\ startenv = osenv
    /\ sessions = <<>>
    /\ last = Idle
    /\ httpd = Serving("streamable")

NextGate == NextHTTP(AuthHeaders, GateQueries, {TRUE})

SpecGate == InitGate /\ [][NextGate]_vars

(***************************************************************************)
(* Startup and the routes beside /mcp, part_002 lines 88-254.              *)
(***************************************************************************)
\* config.TransportType: the two transports and two names that are neither.
Transports == {"sse", "streamable", "stdio", ""}

\* A mutant of StartHTTPServer: an unrecognized transport name is served as
\* the streamable transport.
StartHTTPServerAnyTransport(transport, bindOk) ==
    /\ ~httpd.started
    /\ sessions = <<>>
    /\ httpd' = IF bindOk THEN Serving(transport)
                ELSE [Serving(transport) EXCEPT !.listening = FALSE,
                                                !.err = "listen"]
    /\ last' = [op |-> "StartHTTPServer", transport |-> transport]
    /\ UNCHANGED <<osenv, startenv, sessions>>

\* StartHTTPServer(config) with the default port.
StartHTTPServer(transport, bindOk) ==
    /\ ~httpd.started
    /\ sessions = <<>>          \* the mcp command was not the one run
    /\ httpd' = Listen(DefaultPort, transport, bindOk)
    /\ last' = [op |-> "StartHTTPServer", transport |-> transport]
    /\ UNCHANGED <<osenv, startenv, sessions>>

\* The handler of /.well-known/mcp-config, lines 116-152.
mcpConfigHandler(method) ==
    IF method = "OPTIONS" THEN Response(200, "*", NoBody)
    ELSE Response(200, "*", Doc("configSchema", <<>>))

\* The document of lines 167-191.
serverCard == Doc("serverCard", <<"search", "download">>)

\* A mutant of serverCardHandler: the tools are listed only once a session
\* has been established.
serverCardHandlerPerSession(method) ==
    IF method = "OPTIONS" THEN Response(200, "*", NoBody)
    ELSE Response(200, "*",
                  IF sessions = <<>> THEN Doc("serverCard", <<>>)
                  ELSE serverCard)

\* serverCardHandler, lines 155-197.
serverCardHandler(method) ==
    IF method = "OPTIONS" THEN Response(200, "*", NoBody)
    ELSE Response(200, "*", serverCard)

CodePrefixLen == 10         \* code[:10], part_002 line 218

\* The handler of /oauth/callback, lines 204-229: the method is not read.
oauthCallbackHandler(code) ==
    IF code = <<>>
    THEN Response(400, "*", Doc("Missing authorization code", <<>>))
    ELSE IF Len(code) < CodePrefixLen THEN Dropped
    ELSE Response(200, "*", Doc("success", <<>>))

\* The handler of /health, lines 232-235: no header is set, the method is
\* not read.
healthHandler == Response(200, "", Doc("OK", <<>>))

\* A mutant of ServeMux: every route is behind oauthMiddleware.
ServeMuxAllGated(path, method, auth, code, env) ==
    IF oauthMiddleware(auth, env) = "401"
    THEN Response(401, "", Doc("Unauthorized", <<>>))
    ELSE IF oauthMiddleware(auth, env) = "panic" THEN Dropped
    ELSE IF path = "/.well-known/mcp-config" THEN mcpConfigHandler(method)
    ELSE IF path = "/oauth/callback" THEN oauthCallbackHandler(code)
    ELSE IF path = "/health" THEN healthHandler
    ELSE serverCardHandler(method)

\* The mux of lines 112-235 for the paths other than /mcp: the handlers are
\* mounted as they are, neither middleware is applied to them.
ServeMux(path, method, auth, code, env) ==
    IF path = "/.well-known/mcp-config" THEN mcpConfigHandler(method)
    ELSE IF path = "/oauth/callback" THEN oauthCallbackHandler(code)
    ELSE IF path = "/health" THEN healthHandler
    ELSE serverCardHandler(method)

\* A mutant of ServeRoute: a request to /health makes the listener change
\* to the other transport.
ServeRouteSwitchesTransport(path, method, auth, code) ==
    /\ httpd.listening
    /\ path \in httpd.routes \ {"/mcp"}
    /\ LET r == [path |-> path, method |-> method, auth |-> auth,
                 code |-> code]
           w == ServeMux(path, method, auth, code, osenv)
       IN  last' = [op |-> "http", req |-> r, status |-> w.status,
                    acao |-> w.acao, body |-> w.body]
    /\ httpd' = IF path = "/health"
                THEN [httpd EXCEPT !.transport =
                        IF @ = "sse" THEN "streamable" ELSE "sse"]
                ELSE httpd
    /\ UNCHANGED <<osenv, startenv, sessions>>

\* A request to a mounted path other than /mcp.
ServeRoute(path, method, auth, code) ==
    /\ httpd.listening
    /\ path \in httpd.routes \ {"/mcp"}
    /\ LET r == [path |-> path, method |-> method, auth |-> auth,
                 code |-> code]
           w == ServeMux(path, method, auth, code, osenv)
       IN  last' = [op |-> "http", req |-> r, status |-> w.status,
                    acao |-> w.acao, body |-> w.body]
    /\ UNCHANGED <<osenv, startenv, sessions, httpd>>

(***************************************************************************)
(* SpecStdio: StartMCPServer, src/internal/modes/cli.go lines 309-334.     *)
(* One server on the standard streams, built from the process environment. *)
(***************************************************************************)
\* A mutant of StartMCPServer: a failed GetEnv ends the process, no server
\* is built.
StartMCPServerFatal ==
    /\ ~httpd.started
    /\ sessions = <<>>
    /\ LET res == GetEnv(osenv)
       IN  /\ sessions' = IF res.err THEN <<>>
                          ELSE <<[query |-> EmptyQuery,
                                  server |-> createMCPServer(EnvOf(res))]>>
           /\ last' = [op |-> "StartMCPServer", err |-> res.err]
    /\ UNCHANGED <<osenv, startenv, httpd>>

StartMCPServer ==
    /\ ~httpd.started
    /\ sessions = <<>>
    /\ LET res == GetEnv(osenv)
           env == IF res.err THEN NoEnv ELSE EnvOf(res)     \* lines 320-325
       IN  /\ sessions' = <<[query |-> EmptyQuery,
                             server |-> createMCPServer(env)]>>
           /\ last' = [op |-> "StartMCPServer", err |-> res.err]
    /\ UNCHANGED <<osenv, startenv, httpd>>

\* A tools/call read from the standard input.
StdioToolCall(tool, archOk) ==
    /\ ~httpd.started
    /\ Len(sessions) = 1
    /\ last' = [op |-> "stdio", tool |-> tool, archOk |-> archOk,
                result |-> CallTool(sessions[1].server, tool, osenv, archOk)]
    /\ UNCHANGED <<osenv, startenv, sessions, httpd>>

InitStdio ==
    /\ osenv \in ConfigEnvs
    /\ startenv = osenv
    /\ sessions = <<>>
    /\ last = Idle
    /\ httpd = NotStarted

NextStdio ==
    \/ StartMCPServer
    \/ \E t \in {"search", "download"}, archOk \in BOOLEAN :
            StdioToolCall(t, archOk)

SpecStdio == InitStdio /\ [][NextStdio]_vars

(***************************************************************************)
(* SpecRoutes: the program from process start.  The http command runs     *)
(* StartHTTPServer with any transport name and requests then arrive on     *)
(* every mounted path; the mcp command runs StartMCPServer instead.        *)
(***************************************************************************)
RouteHeaders ==
    {<<>>, Bearer \o Space \o Xyz, Bearer \o Space \o Chars(MaxTokenLen)}

Codes ==
    {<<>>, Xyz, Chars(CodePrefixLen - 1), Chars(CodePrefixLen),
     Chars(MaxCodeLen)}

RouteEnvs == {e \in GateEnvs : e["ANNAS_SECRET_KEY"] = "E"}

InitRoutes ==
    /\ osenv \in RouteEnvs
    /\ startenv = osenv
    /\ sessions = <<>>
    /\ last = Idle
    /\ httpd = NotStarted

NextRoutes ==
    \/ \E t \in Transports, bindOk \in BOOLEAN : StartHTTPServer(t, bindOk)
    \/ \E p \in Paths \ {"/mcp"}, m \in Methods, a \in RouteHeaders,
          c \in Codes :
            ServeRoute(p, m, a, c)
    \/ NextHTTP(RouteHeaders, GateQueries, {TRUE})
    \/ StartMCPServer
    \/ \E t \in {"search", "download"} : StdioToolCall(t, TRUE)

SpecRoutes == InitRoutes /\ [][NextRoutes]_vars

(***************************************************************************)
(* SpecStdioEnv: the stdio server in a process whose environment is        *)
(* written (os.Setenv) while the server runs.                              *)
(***************************************************************************)
EnvironmentChange(name, value) ==
    /\ ~httpd.started
    /\ Len(sessions) = 1
    /\ osenv' = Setenv(osenv, name, value)
    /\ last' = [op |-> "Setenv", name |-> name, value |-> value]
    /\ UNCHANGED <<startenv, sessions, httpd>>

NextStdioEnv ==
    \/ NextStdio
    \/ \E n \in {"ANNAS_SECRET_KEY", "SECRET_KEY"}, v \in EnvVals :
            EnvironmentChange(n, v)

SpecStdioEnv == InitStdio /\ [][NextStdioEnv]_vars

(***************************************************************************)
(* SpecResolve: a sequence of LoadEnv calls in one process.  last keeps    *)
(* every call with its result.                                             *)
(***************************************************************************)
ResolveQueries ==
    {q \in Queries :
        /\ q["downloadPath"] \in {"", "A"}
        /\ q["ANNAS_SECRET_KEY"] = ""
        /\ q["ANNAS_DOWNLOAD_PATH"] = ""}

\* A mutant of LoadEnvEffect: the values of the query are written to the
\* process environment, as configureEnvFromRequest does.
LoadEnvEffectSetenv(req, env) ==
    IF req.isNil THEN env ELSE configureEnvFromRequest(req.query, env)

\* The process environment after LoadEnv(req): LoadEnv calls os.Getenv
\* only (part_001 lines 46-62) and writes nothing.
LoadEnvEffect(req, env) == env

NoCalls == [op |-> "LoadEnvLog", calls |-> <<>>]

LoadEnvAgain(isNil, query) ==
    /\ Len(last.calls) < MaxCalls
    /\ LET req == IF isNil THEN NoRequest ELSE Request(query)
       IN  /\ last' = [last EXCEPT !.calls =
                          Append(@, [req |-> req, res |-> LoadEnv(req, osenv)])]
           /\ osenv' = LoadEnvEffect(req, osenv)
    /\ UNCHANGED <<startenv, sessions, httpd>>

InitResolve ==
    /\ osenv \in HTTPEnvs
    /\ startenv = osenv
    /\ sessions = <<>>
    /\ last = NoCalls
    /\ httpd = NotStarted

NextResolve ==
    \/ \E q \in ResolveQueries : LoadEnvAgain(FALSE, q)
    \/ LoadEnvAgain(TRUE, EmptyQuery)

SpecResolve == InitResolve /\ [][NextResolve]_vars

(***************************************************************************)
(* StartCLI, src/internal/modes/cli.go lines 18-174: one subcommand is run *)
(* and the process exits with status 1 when its handler returned an error. *)
(***************************************************************************)
Digits == <<"0", "1", "2", "3", "4", "5", "6", "7", "8", "9">>

IsDigit(c) == \E d \in 1..10 : Digits[d] = c

DigitVal(c) == (CHOOSE d \in 1..10 : Digits[d] = c) - 1

RECURSIVE ParseDigits(_, _)
ParseDigits(s, acc) ==
    IF s = <<>> THEN acc
    ELSE ParseDigits(Tail(s), 10 * acc + DigitVal(Head(s)))

\* strconv.Atoi: an optional sign, then one or more decimal digits.
Atoi(s) ==
    LET signed == s # <<>> /\ Head(s) \in {"+", "-"}
        body == IF signed THEN Tail(s) ELSE s
    IN  IF body = <<>> \/ \E i \in 1..Len(body) : ~IsDigit(body[i])
        THEN [ok |-> FALSE, n |-> 0]
        ELSE [ok |-> TRUE,
              n |-> IF Head(s) = "-" THEN 0 - ParseDigits(body, 0)
                    ELSE ParseDigits(body, 0)]

\* A mutant of defaultPort: PORT is not read.
defaultPortIgnoresEnv(portStr) == DefaultPort

\* defaultPort, cli.go lines 136-141.
defaultPort(portStr) ==
    IF portStr # <<>> /\ Atoi(portStr).ok /\ Atoi(portStr).n > 0
    THEN Atoi(portStr).n
    ELSE DefaultPort

\* A command-line flag: given with a value, or absent.
NoFlag(zero) == [given |-> FALSE, value |-> zero]
Flag(value) == [given |-> TRUE, value |-> value]

\* --port, cli.go line 159: the default of the flag is defaultPort.
httpPort(portStr, flag) ==
    IF flag.given THEN flag.value ELSE defaultPort(portStr)

\* --transport, cli.go line 160.
httpTransport(flag) == IF flag.given THEN flag.value ELSE "streamable"

\* A mutant of Execute: the error of the handler is dropped.
ExecuteIgnoresError(err) == [exited |-> TRUE, status |-> 0]

\* fang.Execute and os.Exit(1), cli.go lines 167-173: StartCLI returns, and
\* the process ends with status 0, when the handler returned nil.
Execute(err) ==
    [exited |-> TRUE, status |-> IF err # "" THEN 1 ELSE 0]

Command(cmd, archOk, portStr, portFlag, transport, err, archive, exit) ==
    [op |-> "cli", cmd |-> cmd, archOk |-> archOk, portStr |-> portStr,
     portFlag |-> portFlag, transport |-> transport, err |-> err,
     archive |-> archive, exited |-> exit.exited, status |-> exit.status]

\* searchCmd, cli.go lines 40-76.
searchCmd(archOk) ==
    /\ last = Idle
    /\ ~httpd.started
    /\ sessions = <<>>
    /\ LET err == IF archOk THEN "" ELSE "failed to search books"
       IN  last' = Command("search", archOk, <<>>, NoFlag(0), "", err,
                           <<[fn |-> "FindBook"]>>, Execute(err))
    /\ UNCHANGED <<osenv, startenv, sessions, httpd>>

\* downloadCmd, cli.go lines 78-117.
downloadCmd(archOk) ==
    /\ last = Idle
    /\ ~httpd.started
    /\ sessions = <<>>
    /\ LET res == GetEnv(osenv)
           err == IF res.err THEN "failed to get environment"
                  ELSE IF archOk THEN "" ELSE "failed to get download URL"
           archive == IF res.err THEN <<>>
                      ELSE <<[fn |-> "GetDownloadURL", key |-> res.SecretKey]>>
       IN  last' = Command("download", archOk, <<>>, NoFlag(0), "", err,
                           archive, Execute(err))
    /\ UNCHANGED <<osenv, startenv, sessions, httpd>>

\* mcpCmd, cli.go lines 119-129.
mcpCmd ==
    /\ last = Idle
    /\ StartMCPServer

\* httpCmd, cli.go lines 131-160, with StartHTTPServer: an invalid
\* transport is returned as an error, a failed ListenAndServe ends the
\* process in l.Fatal (part_002 line 249), and otherwise the server runs.
httpCmd(portStr, portFlag, transportFlag, bindOk) ==
    /\ last = Idle
    /\ ~httpd.started
    /\ sessions = <<>>
    /\ LET transport == httpTransport(transportFlag)
           h == Listen(httpPort(portStr, portFlag), transport, bindOk)
       IN  /\ httpd' = h
           /\ last' = Command("http", TRUE, portStr, portFlag, transport,
                              h.err, <<>>,
                              IF h.listening
                              THEN [exited |-> FALSE, status |-> 0]
                              ELSE IF h.err = "listen"
                              THEN [exited |-> TRUE, status |-> 1]
                              ELSE Execute(h.err))
    /\ UNCHANGED <<osenv, startenv, sessions>>

(***************************************************************************)
(* SpecCLI: the process from its start to the end of the subcommand, or to *)
(* the running server.                                                     *)
(***************************************************************************)
PortStrings ==
    {<<>>, <<"3", "0", "0", "0">>, <<"8", "0", "8", "0">>, <<"8", "0">>,
     <<"6", "5", "5", "3", "5">>, <<"0">>, <<"-", "5">>, <<"a", "b", "c">>,
     <<"1", "2", "a">>, <<" ", "8", "0">>}

PortFlags == {NoFlag(0), Flag(9000), Flag(3000)}

TransportFlags == {NoFlag("")} \cup {Flag(t) : t \in Transports}

InitCLI ==
    /\ osenv \in HTTPEnvs
    /\ startenv = osenv
    /\ sessions = <<>>
    /\ last = Idle
    /\ httpd = NotStarted

NextCLI ==
    \/ \E archOk \in BOOLEAN : searchCmd(archOk)
    \/ \E archOk \in BOOLEAN : downloadCmd(archOk)
    \/ mcpCmd
    \/ \E ps \in PortStrings, pf \in PortFlags, tf \in TransportFlags,
          bindOk \in BOOLEAN :
            httpCmd(ps, pf, tf, bindOk)

SpecCLI == InitCLI /\ [][NextCLI]_vars

(***************************************************************************)
(* The precedence the specification states, written as an ordered list of  *)
(* sources per field; the claims about LoadEnv compare the code with it.   *)
(***************************************************************************)
RECURSIVE FirstNonEmpty(_)
FirstNonEmpty(seq) ==
    IF seq = <<>> THEN ""
    ELSE IF Head(seq) # "" THEN Head(seq) ELSE FirstNonEmpty(Tail(seq))

SecretKeySources(req, env) ==
    (IF req.isNil THEN <<>>
     ELSE <<req.query["secretKey"], req.query["ANNAS_SECRET_KEY"]>>)
    \o <<env["ANNAS_SECRET_KEY"], env["secretKey"], env["SECRET_KEY"]>>

DownloadPathSources(req, env) ==
    (IF req.isNil THEN <<>>
     ELSE <<req.query["downloadPath"], req.query["ANNAS_DOWNLOAD_PATH"]>>)
    \o <<env["ANNAS_DOWNLOAD_PATH"], env["downloadPath"]>>

C8_MissingSecretKeyIsError ==
    (/\ last.op = "LoadEnv"
     /\ FirstNonEmpty(SecretKeySources(last.req, osenv)) = "")
        => last.res = [err |-> TRUE]

\* C8's case: every secret-key source is empty while download paths are
\* given by the query and by the environment, and LoadEnv failed.
C8_Witness ==
    /\ last.op = "LoadEnv"
    /\ ~last.req.isNil
    /\ FirstNonEmpty(SecretKeySources(last.req, osenv)) = ""
    /\ last.req.query["downloadPath"] = "A"
    /\ osenv["ANNAS_DOWNLOAD_PATH"] = "E"
    /\ last.res.err

\* C10: whenever a secret key is resolved LoadEnv succeeds, whatever the
\* download-path sources hold, and with no non-empty download-path source the
\* DownloadPath is /tmp/downloads.
C10_DownloadPathDefaults ==
    (/\ last.op = "LoadEnv"
     /\ FirstNonEmpty(SecretKeySources(last.req, osenv)) # "")
        => /\ ~last.res.err
           /\ FirstNonEmpty(DownloadPathSources(last.req, osenv)) = ""
                => last.res.DownloadPath = "/tmp/downloads"

\* C10's case: the secret key comes from SECRET_KEY alone, no download-path
\* source is set, and LoadEnv succeeded with the default path.
C10_Witness ==
    /\ last.op = "LoadEnv"
    /\ ~last.req.isNil
    /\ last.req.query = EmptyQuery
    /\ osenv["ANNAS_SECRET_KEY"] = ""
    /\ osenv["secretKey"] = ""
    /\ osenv["SECRET_KEY"] = "E"
    /\ osenv["ANNAS_DOWNLOAD_PATH"] = ""
    /\ osenv["downloadPath"] = ""
    /\ ~last.res.err
    /\ last.res.DownloadPath = "/tmp/downloads"

(***************************************************************************)
(* Sessions and shared process state (Spec).                               *)
(***************************************************************************)
DownloadCallOn(sid) ==
    /\ last.op = "mcp"
    /\ last.forwarded
    /\ last.result.kind = "call"
    /\ last.req.tool = "download"
    /\ last.req.sid = sid

\* C2: when two sessions were established with different secretKey query
\* parameters, every download call of a session uses the secret key, and
\* the download path, that the session's own request supplied.
C2_SessionsUseOwnSecretKey ==
    (/\ Len(sessions) = 2
     /\ sessions[1].query["secretKey"] # ""
     /\ sessions[2].query["secretKey"] # ""
     /\ sessions[1].query["secretKey"] # sessions[2].query["secretKey"])
        => \A sid \in 1..2 :
              DownloadCallOn(sid) =>
                  /\ Len(last.result.used) = 1
                  /\ last.result.used[1].SecretKey
                        = sessions[sid].query["secretKey"]
                  /\ sessions[sid].query["downloadPath"] # ""
                        => last.result.used[1].DownloadPath
                             = sessions[sid].query["downloadPath"]

\* C3: the process environment variables ANNAS_SECRET_KEY and
\* ANNAS_DOWNLOAD_PATH hold, after any sequence of requests, the values they
\* held at process start.
C3_EnvironmentUnchanged ==
    /\ osenv["ANNAS_SECRET_KEY"] = startenv["ANNAS_SECRET_KEY"]
    /\ osenv["ANNAS_DOWNLOAD_PATH"] = startenv["ANNAS_DOWNLOAD_PATH"]

(***************************************************************************)
(* The auth gate (SpecGate).                                               *)
(***************************************************************************)
\* The header is exactly "Bearer <token>" with a non-empty token.
IsBearerWithToken(h) ==
    /\ Len(h) > Len(Bearer) + 1
    /\ SubSeq(h, 1, Len(Bearer) + 1) = Bearer \o Space

\* C4: with the gate active, every request to /mcp, preflights aside, whose
\* Authorization header is "Bearer <token>" with a non-empty token of any
\* length is forwarded to the protocol handler.
C4_AnyBearerTokenAdmitted ==
    (/\ last.op = "mcp"
     /\ last.req.method # "OPTIONS"
     /\ osenv["SMITHERY_CLIENT_ID"] # ""
     /\ IsBearerWithToken(last.req.auth))
        => last.forwarded

\* C5: with the gate active, every non-preflight request to /mcp whose
\* Authorization header is missing, has another scheme than Bearer or has an
\* empty token is answered 401 and does not reach the protocol handler: no
\* session is built and the process environment is left as it was.
C5_GateRejects ==
    [][(/\ last'.op = "mcp"
        /\ last'.req.method # "OPTIONS"
        /\ osenv["SMITHERY_CLIENT_ID"] # ""
        /\ ~IsBearerWithToken(last'.req.auth))
          => /\ last'.status = 401
             /\ ~last'.forwarded
             /\ sessions' = sessions
             /\ osenv' = osenv]_vars

\* C5's case: the gate is active and a POST with the header "Token xyz" and
\* configuration in its query was answered 401; no session exists and the
\* environment is the one the process started with.
C5_Witness ==
    /\ last.op = "mcp"
    /\ last.req.method = "POST"
    /\ last.req.auth = TokenScheme \o Space \o Xyz
    /\ last.req.query["secretKey"] = "A"
    /\ osenv["SMITHERY_CLIENT_ID"] # ""
    /\ last.status = 401
    /\ ~last.forwarded
    /\ sessions = <<>>
    /\ osenv = startenv

\* C6 as stated: with no gate-activation variable set, every request to /mcp
\* is forwarded to the protocol handler.
C6_EveryRequestForwarded ==
    (/\ last.op = "mcp"
     /\ osenv["SMITHERY_CLIENT_ID"] = ""
     /\ osenv["SMITHERY_API_KEY"] = "")
        => last.forwarded

\* C6 amended: with SMITHERY_CLIENT_ID unset, every request to /mcp other
\* than a preflight (OPTIONS) is forwarded to the protocol handler, whatever
\* its Authorization header.
C6_NonPreflightForwarded ==
    (/\ last.op = "mcp"
     /\ last.req.method # "OPTIONS"
     /\ osenv["SMITHERY_CLIENT_ID"] = "")
        => last.forwarded

\* C6's case: the gate is not configured and a request with the header
\* "Token xyz" established a session.
C6_Witness ==
    /\ last.op = "mcp"
    /\ last.req.method = "GET"
    /\ last.req.auth = TokenScheme \o Space \o Xyz
    /\ osenv["SMITHERY_CLIENT_ID"] = ""
    /\ last.forwarded
    /\ last.result.kind = "session"

\* C7: with SMITHERY_API_KEY set, a non-preflight request to /mcp without an
\* "Authorization: Bearer <token>" header is rejected.
C7_ApiKeyTurnsGateOn ==
    (/\ last.op = "mcp"
     /\ last.req.method # "OPTIONS"
     /\ osenv["SMITHERY_API_KEY"] # ""
     /\ ~IsBearerWithToken(last.req.auth))
        => /\ last.status = 401
           /\ ~last.forwarded

(***************************************************************************)
(* The stdio server (SpecStdio).                                           *)
(***************************************************************************)
\* C9: when no source holds a secret key and none holds a download path,
\* resolution reports the missing credential and the configuration the
\* server then uses has the download path /tmp/downloads.
C9_DefaultPathWithoutSecretKey ==
    (/\ last.op = "StartMCPServer"
     /\ FirstNonEmpty(SecretKeySources(NoRequest, osenv)) = ""
     /\ FirstNonEmpty(DownloadPathSources(NoRequest, osenv)) = "")
        => /\ last.err
           /\ sessions[1].server.env.DownloadPath = "/tmp/downloads"

\* C11: a download call on a server whose resolved secret key is empty
\* returns the missing-credential error and makes no call to the archive
\* client.
C11_NoArchiveCallWithoutKey ==
    (/\ last.op = "stdio"
     /\ last.tool = "download"
     /\ sessions[1].server.env.SecretKey = "")
        => /\ last.result.err = "secret key is not configured"
           /\ last.result.archive = <<>>

\* C11's case: the server was built without a secret key, a download call
\* was made while the archive would have answered, and it failed.
C11_Witness ==
    /\ last.op = "stdio"
    /\ last.tool = "download"
    /\ last.archOk
    /\ sessions[1].server.env.SecretKey = ""
    /\ last.result.err # ""

\* C12: when no tier holds a secret key the stdio server is still built with
\* both tools; a search call makes one FindBook call and returns the
\* archive's outcome, every download call fails with the missing-credential
\* error.
C12_SearchWorksWithoutKey ==
    FirstNonEmpty(SecretKeySources(NoRequest, osenv)) = "" =>
        /\ last.op = "StartMCPServer" =>
              /\ Len(sessions) = 1
              /\ sessions[1].server.tools = <<"search", "download">>
        /\ (last.op = "stdio" /\ last.tool = "search") =>
              /\ last.result.archive = <<[fn |-> "FindBook"]>>
              /\ (last.result.err = "") = last.archOk
        /\ (last.op = "stdio" /\ last.tool = "download") =>
              /\ last.result.err = "secret key is not configured"
              /\ last.result.archive = <<>>

\* C12's case: nothing is configured, the server runs and a search call
\* returned the archive's result.
C12_Witness ==
    /\ FirstNonEmpty(SecretKeySources(NoRequest, osenv)) = ""
    /\ Len(sessions) = 1
    /\ last.op = "stdio"
    /\ last.tool = "search"
    /\ last.archOk
    /\ last.result.err = ""

(***************************************************************************)
(* Startup and the routes (SpecRoutes).                                    *)
(***************************************************************************)
\* C13: StartHTTPServer with a transport name other than sse or streamable
\* returns the invalid-transport error with no route mounted and no socket
\* bound; the listener never serves with an unrecognized transport.
C13_InvalidTransportNeverListens ==
    /\ httpd.listening => httpd.transport \in {"sse", "streamable"}
    /\ (httpd.started /\ httpd.transport \notin {"sse", "streamable"}) =>
          /\ httpd.err = "invalid transport type"
          /\ httpd.routes = {}
          /\ ~httpd.listening
    /\ last.op \in {"http", "mcp"} =>
          httpd.transport \in {"sse", "streamable"}

\* C13's case: StartHTTPServer ran with the transport name "stdio" and
\* returned the error.
C13_Witness ==
    /\ last.op = "StartHTTPServer"
    /\ httpd.started
    /\ httpd.transport = "stdio"
    /\ httpd.err = "invalid transport type"
    /\ httpd.routes = {}

\* C15: an OPTIONS request to any mounted path is answered with a success
\* status, Access-Control-Allow-Origin: * and an empty body.
C15_PreflightOnEveryPath ==
    (/\ last.op \in {"http", "mcp"}
     /\ last.req.method = "OPTIONS")
        => /\ last.status = 200
           /\ last.acao = "*"
           /\ last.body = NoBody

\* C16: whatever the gate variables and the Authorization header are, GET
\* /health is answered 200 with the body OK and GET on the configuration
\* schema and on both server-card paths is answered 200 with the document;
\* no path other than /mcp answers 401, and /mcp does when the gate is
\* active and the header is missing.
C16_HealthAndDiscoveryOpen ==
    /\ (last.op = "http" /\ last.req.method = "GET") =>
          /\ last.req.path = "/health" =>
                last.status = 200 /\ last.body = Doc("OK", <<>>)
          /\ last.req.path = "/.well-known/mcp-config" =>
                last.status = 200 /\ last.body = Doc("configSchema", <<>>)
          /\ last.req.path \in {"/.well-known/mcp-server-card.json",
                                "/.well-known/mcp/server-card.json"} =>
                last.status = 200 /\ last.body = serverCard
    /\ last.op = "http" => last.status # 401
    /\ (/\ last.op = "mcp"
        /\ last.req.method # "OPTIONS"
        /\ osenv["SMITHERY_CLIENT_ID"] # ""
        /\ last.req.auth = <<>>) => last.status = 401

\* C16's case: the gate is active and GET /health without an Authorization
\* header was answered 200 OK.
C16_Witness ==
    /\ last.op = "http"
    /\ last.req.method = "GET"
    /\ last.req.path = "/health"
    /\ last.req.auth = <<>>
    /\ osenv["SMITHERY_CLIENT_ID"] # ""
    /\ last.status = 200
    /\ last.body.text = "OK"

\* C19: every server instance registers exactly the two tools search and
\* download, and every server card that is served lists exactly those two
\* names.
C19_ExactlyTwoTools ==
    /\ \A i \in 1..Len(sessions) :
          /\ Len(sessions[i].server.tools) = 2
          /\ {sessions[i].server.tools[k] : k \in 1..2}
                = {"search", "download"}
    /\ (/\ last.op = "http"
        /\ last.req.method # "OPTIONS"
        /\ last.req.path \in {"/.well-known/mcp-server-card.json",
                               "/.well-known/mcp/server-card.json"}) =>
          /\ Len(last.body.tools) = 2
          /\ {last.body.tools[k] : k \in 1..2} = {"search", "download"}

\* C19's case: a session's server was built by the HTTP factory and the
\* server card was then requested.
C19_Witness ==
    /\ Len(sessions) >= 1
    /\ httpd.listening
    /\ last.op = "http"
    /\ last.req.method = "GET"
    /\ last.req.path = "/.well-known/mcp/server-card.json"
    /\ last.status = 200

\* C20: GET /oauth/callback is answered 200 when it carries a non-empty
\* code of any length and 400 when it carries none, whatever the gate and
\* the Authorization header are.
C20_CallbackAcknowledged ==
    (/\ last.op = "http"
     /\ last.req.path = "/oauth/callback"
     /\ last.req.method = "GET")
        => last.status = IF last.req.code = <<>> THEN 400 ELSE 200

(***************************************************************************)
(* Resolution per session, repeated resolution, resolution in stdio mode.  *)
(***************************************************************************)
\* C14: when every session was established with the query parameters
\* secretKey and downloadPath only, every download call of a session uses
\* the configuration resolved from the request that established that
\* session (its query first, then the environment the process was started
\* with), and fails without an archive call when that resolution fails.
C14_SessionUsesItsResolution ==
    (\A i \in 1..Len(sessions) :
        /\ sessions[i].query["ANNAS_SECRET_KEY"] = ""
        /\ sessions[i].query["ANNAS_DOWNLOAD_PATH"] = "")
    => \A sid \in 1..Len(sessions) :
        DownloadCallOn(sid) =>
            LET res == LoadEnv(Request(sessions[sid].query), startenv)
            IN  IF res.err
                THEN last.result.err # "" /\ last.result.archive = <<>>
                ELSE last.result.used = <<EnvOf(res)>>

\* C17: in a sequence of LoadEnv calls, two calls with the same request
\* return the same result (equal configurations, or both fail), whatever
\* calls were made between them.
C17_SameRequestSameResult ==
    \A i, j \in 1..Len(last.calls) :
        last.calls[i].req = last.calls[j].req =>
            /\ last.calls[i].res.err = last.calls[j].res.err
            /\ ~last.calls[i].res.err =>
                  EnvOf(last.calls[i].res) = EnvOf(last.calls[j].res)

\* C17's case: the first and the third call have the same request and
\* resolve the default download path, the call between them had a request
\* that names another secret key and a download path.
C17_Witness ==
    /\ Len(last.calls) = 3
    /\ last.calls[1].req = last.calls[3].req
    /\ ~last.calls[1].req.isNil
    /\ last.calls[1].req.query["secretKey"] = "A"
    /\ ~last.calls[2].req.isNil
    /\ last.calls[2].req.query["secretKey"] = "B"
    /\ last.calls[2].req.query["downloadPath"] = "A"
    /\ ~last.calls[3].res.err
    /\ last.calls[3].res.DownloadPath = DefaultDownloadPath
    /\ last.calls[2].res.DownloadPath = "A"

C22_PlainSessionUsesStartEnvironment ==
    \A sid \in 1..Len(sessions) :
        (sessions[sid].query = EmptyQuery /\ DownloadCallOn(sid)) =>
            LET res == GetEnv(startenv)
            IN  IF res.err
                THEN last.result.err # "" /\ last.result.archive = <<>>
                ELSE last.result.used = <<EnvOf(res)>>

\* C23: for the request of the only session there is, the configuration
\* the HTTP session path obtains (configureEnvFromRequest, then GetEnv in
\* the download handler) is the one LoadEnv returns for that request and
\* the starting environment, and both fail together.
C23_ResolutionPathsAgree ==
    (Len(sessions) = 1 /\ DownloadCallOn(1)) =>
        LET res == LoadEnv(Request(sessions[1].query), startenv)
        IN  IF res.err
            THEN last.result.used = <<>>
            ELSE last.result.used = <<EnvOf(res)>>

(***************************************************************************)
(* Preflights on /mcp, the discovery documents, the transport (SpecRoutes).*)
(***************************************************************************)
\* C24: every OPTIONS request to /mcp is answered 200 by the CORS layer,
\* whatever the gate variables and the Authorization header are; it does
\* not reach the protocol handler, builds no server instance and leaves
\* the process environment as it was.
C24_PreflightAnsweredByCors ==
    [][(last'.op = "mcp" /\ last'.req.method = "OPTIONS")
          => /\ last'.status = 200
             /\ last'.acao = "*"
             /\ ~last'.forwarded
             /\ sessions' = sessions
             /\ osenv' = osenv]_vars

\* C24's case: the gate is active and an OPTIONS request without an
\* Authorization header, with configuration in its query, was answered 200
\* while no session exists and the environment is the starting one.
C24_Witness ==
    /\ last.op = "mcp"
    /\ last.req.method = "OPTIONS"
    /\ last.req.auth = <<>>
    /\ last.req.query["secretKey"] = "A"
    /\ osenv["SMITHERY_CLIENT_ID"] # ""
    /\ last.status = 200
    /\ sessions = <<>>
    /\ osenv = startenv

\* C25: the answer to a GET on a discovery path is the same in every
\* state: status 200 and the configuration schema on
\* /.well-known/mcp-config, status 200 and the server card on both
\* server-card paths, whatever the query and the headers of the request,
\* the sessions and the process environment are.
C25_DiscoveryDocumentsFixed ==
    (/\ last.op = "http"
     /\ last.req.method = "GET"
     /\ last.req.path \in {"/.well-known/mcp-config",
                            "/.well-known/mcp-server-card.json",
                            "/.well-known/mcp/server-card.json"})
        => <<last.status, last.body>> =
              IF last.req.path = "/.well-known/mcp-config"
              THEN <<200, [text |-> "configSchema", tools |-> <<>>]>>
              ELSE <<200, [text |-> "serverCard",
                           tools |-> <<"search", "download">>]>>

\* C25's case: two sessions were established, one with a secret key in
\* its query, the environment was written, and a GET with a query
\* parameter and an Authorization header was served the server card.
C25_Witness ==
    /\ Len(sessions) = 2
    /\ osenv # startenv
    /\ last.op = "http"
    /\ last.req.method = "GET"
    /\ last.req.path = "/.well-known/mcp-server-card.json"
    /\ last.req.code # <<>>
    /\ last.req.auth # <<>>
    /\ last.status = 200

\* C26: once StartHTTPServer has run, no step changes the listener: the
\* transport that serves /mcp, the mounted routes and the socket stay as
\* startup left them.
C26_TransportFixed ==
    [][httpd.started => httpd' = httpd]_vars

\* C26's case: the listener was started with the sse transport, a session
\* was established and a tool was called, and the transport is still sse.
C26_Witness ==
    /\ httpd.listening
    /\ httpd.transport = "sse"
    /\ Len(sessions) >= 1
    /\ last.op = "mcp"
    /\ last.forwarded
    /\ last.result.kind = "call"

(***************************************************************************)
(* The command line (SpecCLI).                                             *)
(***************************************************************************)
\* The values of PORT, with the port the http command is to use when no
\* --port flag is given: the number when PORT is a positive integer, 8080
\* when PORT is unset, not a number or not positive.
PortCases ==
    {[str |-> <<>>, port |-> 8080],
     [str |-> <<"3", "0", "0", "0">>, port |-> 3000],
     [str |-> <<"8", "0", "8", "0">>, port |-> 8080],
     [str |-> <<"8", "0">>, port |-> 80],
     [str |-> <<"6", "5", "5", "3", "5">>, port |-> 65535],
     [str |-> <<"0">>, port |-> 8080],
     [str |-> <<"-", "5">>, port |-> 8080],
     [str |-> <<"a", "b", "c">>, port |-> 8080],
     [str |-> <<"1", "2", "a">>, port |-> 8080],
     [str |-> <<" ", "8", "0">>, port |-> 8080]}

\* C21: the http command binds the port of the --port flag when the flag
\* is given; without the flag it binds the number in PORT when PORT is a
\* positive integer and 8080 when PORT is unset, not a number or not
\* positive.
C21_PortSelection ==
    (/\ last.op = "cli"
     /\ last.cmd = "http"
     /\ last.transport \in {"sse", "streamable"})
        => \A c \in PortCases :
              c.str = last.portStr =>
                  httpd.port = IF last.portFlag.given
                               THEN last.portFlag.value
                               ELSE c.port

\* C21's case: PORT is 3000, no --port flag is given, and the server
\* listens on port 3000.
C21_Witness ==
    /\ last.op = "cli"
    /\ last.cmd = "http"
    /\ last.portStr = <<"3", "0", "0", "0">>
    /\ ~last.portFlag.given
    /\ httpd.listening
    /\ httpd.port = 3000

\* C27: a subcommand whose handler returned an error ends the process with
\* a non-zero status, and the handler returns an error when the search of
\* the archive fails, when the download command finds no secret key or its
\* archive call fails, and when the http command is given an invalid
\* transport name.
C27_HandlerErrorExitsNonZero ==
    last.op = "cli" =>
        /\ last.err # "" => (last.exited /\ last.status # 0)
        /\ (last.cmd = "search" /\ ~last.archOk) => last.err # ""
        /\ (/\ last.cmd = "download"
            /\ \/ FirstNonEmpty(SecretKeySources(NoRequest, osenv)) = ""
               \/ ~last.archOk) => last.err # ""
        /\ (/\ last.cmd = "http"
            /\ last.transport \notin {"sse", "streamable"}) => last.err # ""

\* C27's case: the download command was run without a secret key while the
\* archive would have answered, and the process ended with status 1.
C27_Witness ==
    /\ last.op = "cli"
    /\ last.cmd = "download"
    /\ last.archOk
    /\ last.err # ""
    /\ last.archive = <<>>
    /\ last.exited
    /\ last.status = 1

====
